---- MODULE Spec2Model ----
(***************************************************************************)
(* Model of the headless-curator core: the playlist builder                *)
(* (Curator.build_playlist), the preference-learning engine                *)
(* (Curator.update_preferences over Repository.upsert_preference), the     *)
(* track classifier (Curator.collect_tracks), the publisher                *)
(* (Curator.create_or_update_playlist), the refresh cycle                  *)
(* (Curator.refresh_playlist with its callers), the artist store           *)
(* (Repository.upsert_artist) and the tables tracks and preferences        *)
(* (Repository.upsert_track, Repository.upsert_preference).                *)
(***************************************************************************)
EXTENDS Integers, Sequences, FiniteSets, TLC

(***************************************************************************)
(* Bounds of the model.                                                    *)
(***************************************************************************)
\* largest playlist_size explored
MaxN == 2
\* largest number of tracks over the four input pools together; track ids are
\* 1..MaxPoolTotal, enough for all of them to differ
MaxPoolTotal == 3
\* a category weight is k / WDen with k in 0..WDen, so every weight is in [0,1]
WDen == 2
\* tracks with a preference row are 1..MaxPrefTracks
MaxPrefTracks == 2
\* largest play count observed
MaxPlays == 1
\* learning cycles explored
MaxCycles == 1
\* the clock advances at most MaxTicks times, TickHours hours at a time
MaxTicks == 2
TickHours == 492
\* top songs consumed by one collect_tracks call; their catalog ids are
\* 1..MaxTopSongs
MaxTopSongs == 2
\* tracks in the user's library
MaxLibrary == 1
\* the day collect_tracks runs, in days since the start of year 0
NowDay == 739590
\* the catalog songs are 1..MaxCatalog, the library songs 1..MaxLibrarySongs
MaxCatalog == 3
MaxLibrarySongs == 1
\* most ids handed to create_or_update_playlist in one call
MaxCandidates == 2
\* most tracks in the managed playlist before a call
MaxExisting == 1
\* runs of refresh_playlist explored
MaxRuns == 2
\* artists in the catalog, and calls of upsert_artist explored
MaxArtists == 2
MaxArtistCalls == 3
\* calls of upsert_preference explored on one track
MaxUpserts == 2
\* calls of upsert_track and upsert_preference explored on the two tables; the
\* track ids a caller passes are 1..MaxTrackRows
MaxTableCalls == 3
MaxTrackRows == 2

(***************************************************************************)
(* Settings (utils/config.py defaults) and units.                          *)
(***************************************************************************)
hot_zone_size == 10
hot_zone_hours == 48
decay_days == 14
HoursPerDay == 24
new_release_days == 30
\* limit of get_library_playlist_tracks: one page, never a second
playlist_tracks_limit == 100
\* the model's calendar: every year has DaysPerYear days
DaysPerYear == 365

Ids == 1 .. MaxPoolTotal

\* Optional values: None, or Some(v)
None == << >>
Some(v) == << v >>

Min(a, b) == IF a <= b THEN a ELSE b

(***************************************************************************)
(* PlaylistCategory and the fixed rotation order of build_playlist.        *)
(***************************************************************************)
categories == << "favorites", "hits", "discovery", "wildcard" >>
Categories == { categories[i] : i \in 1 .. Len(categories) }

VARIABLES
    \* ---- build_playlist ----
    playlist_size,   \* settings.algorithm.playlist_size
    weights,         \* settings.algorithm.weights, as numerators over WDen
    pools,           \* the four argument lists (shuffled in place by the call)
    selected,        \* the truncated per-category id lists
    playlist,        \* the output list under construction
    category_idx,    \* rotation counter
    emitted,         \* history: per output position, its category and whether
                     \* the other three truncated lists were empty at that moment
    bp_pc            \* "start" | "loop" | "done"

bvars == << playlist_size, weights, pools, selected, playlist, category_idx,
            emitted, bp_pc >>

VARIABLES
    \* ---- preference store and update_preferences ----
    prefs,           \* track id -> None | Some(PreferenceRecord)
    now,             \* the clock, in hours
    lp_pc,           \* "idle" | "neg" | "decay" | "raised"
    unplayed,        \* rows of get_unplayed_hot_zone_tracks still to process
    decaying,        \* rows of get_decaying_tracks still to process
    cycle_start,     \* history: prefs when the running cycle began
    after_neg,       \* history: prefs when its negative-signal pass ended
    cycles,          \* learning cycles begun so far
    ticks            \* clock advances so far

lvars == << prefs, now, lp_pc, unplayed, decaying, cycle_start, after_neg,
            cycles, ticks >>

\* collect_tracks
VARIABLES
    min_release_year,     \* settings.filters.min_release_year
    library_tracks,       \* what get_all_library_songs returns
    top_songs,            \* the tracks the loop has consumed, in order
    tracks_by_category,   \* the three lists collect_tracks fills
    track_store,          \* table tracks: the TrackRecords
    ct_pc                 \* "loop", "returned" or "raised"

cvars == << min_release_year, library_tracks, top_songs, tracks_by_category,
            track_store, ct_pc >>

\* create_or_update_playlist
VARIABLES
    track_ids,            \* the argument: candidate ids in order
    managed,              \* the library playlist of the configured name, if any
    playlist_before,      \* history: managed when the call began
    existing_tracks,      \* what get_library_playlist_tracks returned
    existing_keys,        \* the working set of keys
    new_track_ids,        \* the ids kept so far
    pb_idx,               \* candidates already looked at
    sent,                 \* history: the ids sent to the music service
    pb_pc                 \* position in the call

pvars == << track_ids, managed, playlist_before, existing_tracks, existing_keys,
            new_track_ids, pb_idx, sent, pb_pc >>

\* refresh_playlist and its callers
VARIABLES
    runs,                 \* one record per call of refresh_playlist, in start order
    run_log               \* table sync_logs, in insertion order

rvars == << runs, run_log >>

\* table artists under upsert_artist
VARIABLES
    artists,              \* ArtistRecord per catalog artist id, None when absent
    was_seed,             \* history: the ids whose stored is_seed has been true
    artist_calls          \* history: the (id, is_seed) of the calls, in order

avars == << artists, was_seed, artist_calls >>

\* one row of table preferences under upsert_preference
VARIABLES
    up_row,               \* the row, None when absent
    up_before,            \* history: the row before the last call
    up_calls              \* history: the arguments of the calls, in order

uvars == << up_row, up_before, up_calls >>

\* tables tracks and preferences under upsert_track and upsert_preference
VARIABLES
    track_rows,           \* table tracks: the apple_music_id of the row with
                          \* primary key i, at position i
    preference_rows,      \* table preferences, in insertion order
    table_calls           \* repository calls made so far

tvars == << track_rows, preference_rows, table_calls >>

vars == << bvars, lvars, cvars, pvars, rvars, avars, uvars, tvars >>

\* what the actions of one component leave alone
nonBuild == << lvars, cvars, pvars, rvars, avars, uvars, tvars >>
nonLearn == << bvars, cvars, pvars, rvars, avars, uvars, tvars >>
nonCollect == << bvars, lvars, pvars, rvars, avars, uvars, tvars >>
nonPublish == << bvars, lvars, cvars, rvars, avars, uvars, tvars >>
nonRefresh == << bvars, lvars, cvars, pvars, avars, uvars, tvars >>
nonArtist == << bvars, lvars, cvars, pvars, rvars, uvars, tvars >>
nonUpsert == << bvars, lvars, cvars, pvars, rvars, avars, tvars >>
nonTables == << bvars, lvars, cvars, pvars, rvars, avars, uvars >>

\* PlaylistCategory values that collect_tracks fills
CollectCategories == { "hits", "discovery", "wildcard" }

\* collect_tracks not running
CollectIdle ==
    /\ min_release_year = 0
    /\ library_tracks = {}
    /\ top_songs = << >>
    /\ tracks_by_category = [c \in CollectCategories |-> << >>]
    /\ ct_pc = "returned"

\* collect_tracks not running, on an empty track table
CollectAtRest == CollectIdle /\ track_store = {}

\* the components modelled after the builder and the learning engine, at rest
\* create_or_update_playlist not running, no managed playlist
PublishAtRest ==
    /\ track_ids = << >>
    /\ managed = None
    /\ playlist_before = None
    /\ existing_tracks = << >>
    /\ existing_keys = {}
    /\ new_track_ids = << >>
    /\ pb_idx = 0
    /\ sent = << >>
    /\ pb_pc = "returned"

\* no refresh has run, the run log is empty
RefreshAtRest ==
    /\ runs = << >>
    /\ run_log = << >>

ArtistIds == 1 .. MaxArtists

\* empty artists table
ArtistAtRest ==
    /\ artists = [a \in ArtistIds |-> None]
    /\ was_seed = {}
    /\ artist_calls = << >>

\* no preference row, no call made
UpsertAtRest ==
    /\ up_row = None
    /\ up_before = None
    /\ up_calls = << >>

\* tables tracks and preferences empty, no call made
TablesAtRest ==
    /\ track_rows = << >>
    /\ preference_rows = << >>
    /\ table_calls = 0

\* the stores of the repository, empty
StoresAtRest == RefreshAtRest /\ ArtistAtRest /\ UpsertAtRest /\ TablesAtRest

LaterAtRest == CollectAtRest /\ PublishAtRest /\ StoresAtRest

(***************************************************************************)
(* Pure helpers of build_playlist.                                         *)
(***************************************************************************)
\* all sequences over S of length at most n
SeqsUpTo(S, n) == UNION { [1 .. k -> S] : k \in 0 .. n }

\* int(playlist_size * weight): truncation of the product
QuotaRoundedUp(n, w) == (n * w + WDen - 1) \div WDen
Quota(n, w) == (n * w) \div WDen

targets == [c \in Categories |-> Quota(playlist_size, weights[c])]

\* lst[:q] for q >= 0
TakeAll(lst, q) == lst
Take(lst, q) == SubSeq(lst, 1, Min(q, Len(lst)))

\* random.shuffle: any permutation of the list
Bijections(n) == { p \in [1 .. n -> 1 .. n] : \A i, j \in 1 .. n : p[i] = p[j] => i = j }
Shuffles(lst) == { [i \in 1 .. Len(lst) |-> lst[p[i]]] : p \in Bijections(Len(lst)) }

\* categories[category_idx % len(categories)]
CatAtReversed(idx) == categories[Len(categories) - (idx % Len(categories))]
CatAt(idx) == categories[(idx % Len(categories)) + 1]

\* The inner while loop: starting at rotation counter idx with `attempts`
\* tries used, skip exhausted categories; the result is the counter and the
\* number of attempts at the point the loop is left.
RECURSIVE InnerLoop(_, _, _)
InnerLoop(sel, idx, attempts) ==
    IF attempts >= Len(categories) THEN [idx |-> idx, attempts |-> attempts]
    ELSE IF sel[CatAt(idx)] # << >> THEN [idx |-> idx, attempts |-> attempts]
    ELSE InnerLoop(sel, idx + 1, attempts + 1)

\* the outer loop condition: len(playlist) < playlist_size
LoopContinuesOffByOne(pl, n) == Len(pl) <= n
LoopContinuesAlways(pl, n) == TRUE
LoopContinues(pl, n) == Len(pl) < n

\* rotation counter after an emission
StayOnCategory(idx) == idx
AdvanceAfterEmit(idx) == idx + 1

\* selected[cat].pop(0)
PopKeep(lst) == lst
PopFirst(lst) == Tail(lst)

(***************************************************************************)
(* Weights are Python floats; the model keeps them as exact fractions       *)
(* << numerator, denominator >> in lowest terms, denominator > 0.          *)
(***************************************************************************)
RECURSIVE Gcd(_, _)
Gcd(a, b) == IF b = 0 THEN a ELSE Gcd(b, a % b)
Abs(a) == IF a < 0 THEN 0 - a ELSE a
Frac(n, d) == LET g == Gcd(Abs(n), d) IN << n \div g, d \div g >>
RMul(a, b) ==
    LET g1 == Gcd(Abs(a[1]), b[2])
        g2 == Gcd(Abs(b[1]), a[2])
    IN Frac((a[1] \div g1) * (b[1] \div g2), (a[2] \div g2) * (b[2] \div g1))
RLeq(a, b) == a[1] * b[2] <= b[1] * a[2]
RLess(a, b) == a[1] * b[2] < b[1] * a[2]
RMax(a, b) == IF RLeq(a, b) THEN b ELSE a
RMin(a, b) == IF RLeq(a, b) THEN a ELSE b

\* PreferenceRecord default weight, and the weights a caller stores
DefaultWeight == Frac(1, 1)
StoredWeights == { Frac(1, 10), Frac(5, 1) }

PrefTracks == 1 .. MaxPrefTracks
\* playlist positions recorded: the last hot-zone position and the first
\* position below the hot zone
Positions == { hot_zone_size, hot_zone_size + 1 }

(***************************************************************************)
(* Repository.upsert_preference on the row `row` (None when the track has  *)
(* no preference yet); the arguments are None or Some(value).  in_library  *)
(* and is_rated are left out: nothing modelled reads them.                 *)
(***************************************************************************)
\* (first with a weight update that also stamps last_played_at)
upsert_preference_played(row, play_count, playlist_position, weight, last_played_at, t) ==
    IF row # None
    THEN LET p0 == row[1]
             p1 == IF play_count # None
                   THEN [p0 EXCEPT
                           !.play_count_previous = p0.play_count,
                           !.play_count = play_count[1],
                           !.last_played_at =
                               IF play_count[1] > p0.play_count THEN Some(t) ELSE @]
                   ELSE p0
             p2 == IF playlist_position # None
                   THEN [p1 EXCEPT
                           !.added_to_playlist_at =
                               IF p1.playlist_position = None THEN Some(t) ELSE @,
                           !.playlist_position = playlist_position]
                   ELSE p1
             p3 == IF weight # None
                   THEN [p2 EXCEPT !.weight = weight[1], !.last_played_at = Some(t)]
                   ELSE p2
             p4 == IF last_played_at # None
                   THEN [p3 EXCEPT !.last_played_at = last_played_at] ELSE p3
         IN Some(p4)
    ELSE Some([play_count |-> IF play_count # None THEN play_count[1] ELSE 0,
               play_count_previous |-> 0,
               playlist_position |-> playlist_position,
               added_to_playlist_at |->
                   IF playlist_position # None THEN Some(t) ELSE None,
               weight |-> IF weight # None /\ weight[1][1] # 0
                          THEN weight[1] ELSE DefaultWeight,
               last_played_at |-> last_played_at])
\* (first with >= in place of > in the play-count comparison)
upsert_preference_at_least(row, play_count, playlist_position, weight, last_played_at, t) ==
    IF row # None
    THEN LET p0 == row[1]
             p1 == IF play_count # None
                   THEN [p0 EXCEPT
                           !.play_count_previous = p0.play_count,
                           !.play_count = play_count[1],
                           !.last_played_at =
                               IF play_count[1] >= p0.play_count THEN Some(t) ELSE @]
                   ELSE p0
             p2 == IF playlist_position # None
                   THEN [p1 EXCEPT
                           !.added_to_playlist_at =
                               IF p1.playlist_position = None THEN Some(t) ELSE @,
                           !.playlist_position = playlist_position]
                   ELSE p1
             p3 == IF weight # None THEN [p2 EXCEPT !.weight = weight[1]] ELSE p2
             p4 == IF last_played_at # None
                   THEN [p3 EXCEPT !.last_played_at = last_played_at] ELSE p3
         IN Some(p4)
    ELSE Some([play_count |-> IF play_count # None THEN play_count[1] ELSE 0,
               play_count_previous |-> 0,
               playlist_position |-> playlist_position,
               added_to_playlist_at |->
                   IF playlist_position # None THEN Some(t) ELSE None,
               weight |-> IF weight # None /\ weight[1][1] # 0
                          THEN weight[1] ELSE DefaultWeight,
               last_played_at |-> last_played_at])
upsert_preference(row, play_count, playlist_position, weight, last_played_at, t) ==
    IF row # None
    THEN LET p0 == row[1]
             p1 == IF play_count # None
                   THEN [p0 EXCEPT
                           !.play_count_previous = p0.play_count,
                           !.play_count = play_count[1],
                           !.last_played_at =
                               IF play_count[1] > p0.play_count THEN Some(t) ELSE @]
                   ELSE p0
             p2 == IF playlist_position # None
                   THEN [p1 EXCEPT
                           !.added_to_playlist_at =
                               IF p1.playlist_position = None THEN Some(t) ELSE @,
                           !.playlist_position = playlist_position]
                   ELSE p1
             p3 == IF weight # None THEN [p2 EXCEPT !.weight = weight[1]] ELSE p2
             p4 == IF last_played_at # None
                   THEN [p3 EXCEPT !.last_played_at = last_played_at] ELSE p3
         IN Some(p4)
    ELSE Some([play_count |-> IF play_count # None THEN play_count[1] ELSE 0,
               play_count_previous |-> 0,
               playlist_position |-> playlist_position,
               added_to_playlist_at |->
                   IF playlist_position # None THEN Some(t) ELSE None,
               weight |-> IF weight # None /\ weight[1][1] # 0
                          THEN weight[1] ELSE DefaultWeight,
               last_played_at |-> last_played_at])

\* Repository.get_unplayed_hot_zone_tracks: the tracks whose row matches
\* (a NULL position or timestamp matches nothing)
get_unplayed_hot_zone_tracks_strict(store, t) ==
    { k \in PrefTracks :
        /\ store[k] # None
        /\ store[k][1].playlist_position # None
        /\ store[k][1].playlist_position[1] < hot_zone_size
        /\ store[k][1].added_to_playlist_at # None
        /\ store[k][1].added_to_playlist_at[1] <= t - hot_zone_hours
        /\ store[k][1].play_count = store[k][1].play_count_previous }
get_unplayed_hot_zone_tracks(store, t) ==
    { k \in PrefTracks :
        /\ store[k] # None
        /\ store[k][1].playlist_position # None
        /\ store[k][1].playlist_position[1] <= hot_zone_size
        /\ store[k][1].added_to_playlist_at # None
        /\ store[k][1].added_to_playlist_at[1] <= t - hot_zone_hours
        /\ store[k][1].play_count = store[k][1].play_count_previous }

\* Repository.get_decaying_tracks
get_decaying_tracks(store, t) ==
    { k \in PrefTracks :
        /\ store[k] # None
        /\ store[k][1].last_played_at # None
        /\ store[k][1].last_played_at[1] < t - decay_days * HoursPerDay }

\* what a query of get_decaying_tracks reads: the store as committed by the
\* upserts made so far, not the store as it was when the cycle began
stale_view(current, at_start) == at_start
committed_view(current, at_start) == current

\* the rows of a query result, in any order the database returns them
Orderings(S) == { q \in [1 .. Cardinality(S) -> S] : \A k \in S : \E i \in DOMAIN q : q[i] = k }
Rows(store, S) ==
    { [i \in DOMAIN q |-> [track |-> q[i], pref |-> store[q[i]][1]]] : q \in Orderings(S) }

\* max(0.1, pref.weight * 0.7)
negative_weight(w) == RMax(Frac(1, 10), RMul(w, Frac(7, 10)))

\* (datetime.now() - pref.last_played_at).days
days_since(t, played) == (t - played) \div HoursPerDay
\* max(0.5, 1 - (days_since - decay_days) * 0.02)
decay_factor_from_zero(days) == RMax(Frac(1, 2), Frac(100 - 2 * days, 100))
decay_factor(days) == RMax(Frac(1, 2), Frac(100 - 2 * (days - decay_days), 100))
\* pref.weight * decay_factor
decayed_weight(w, days) == RMul(w, decay_factor(days))

\* the preference store and learning engine at rest
LearnAtRest ==
    /\ prefs = [k \in PrefTracks |-> None]
    /\ now = 0
    /\ lp_pc = "idle"
    /\ unplayed = << >>
    /\ decaying = << >>
    /\ cycle_start = [k \in PrefTracks |-> None]
    /\ after_neg = [k \in PrefTracks |-> None]
    /\ cycles = 0
    /\ ticks = 0

\* the argument lists explored: any four lists of ids, repeats included,
\* holding at most MaxPoolTotal entries together
LenProfiles ==
    { l \in [Categories -> 0 .. MaxPoolTotal] :
        l["favorites"] + l["hits"] + l["discovery"] + l["wildcard"] <= MaxPoolTotal }
FourLists(f, h, d, w) ==
    [c \in Categories |->
        CASE c = "favorites" -> f [] c = "hits" -> h
          [] c = "discovery" -> d [] OTHER -> w]
\* build_playlist never looks inside an id, so the lists are taken up to a
\* renaming of ids: reading favorites, hits, discovery, wildcard in turn, the
\* first id met is 1 and every id new at its place is one more than the
\* largest met before it
FirstOccurrenceOrder(p) ==
    LET all == p["favorites"] \o p["hits"] \o p["discovery"] \o p["wildcard"]
    IN \A i \in 1 .. Len(all) :
           all[i] = 1 \/ \E j \in 1 .. (i - 1) : all[j] + 1 >= all[i]
PoolInputs ==
    UNION { { p \in { FourLists(f, h, d, w) :
                        f \in [1 .. l["favorites"] -> Ids], h \in [1 .. l["hits"] -> Ids],
                        d \in [1 .. l["discovery"] -> Ids], w \in [1 .. l["wildcard"] -> Ids] } :
                FirstOccurrenceOrder(p) }
            : l \in LenProfiles }

(***************************************************************************)
(* build_playlist as a state machine.                                      *)
(***************************************************************************)
BuildInit ==
    /\ playlist_size \in 0 .. MaxN
    /\ weights \in [Categories -> 0 .. WDen]
    /\ pools \in PoolInputs
    /\ selected = [c \in Categories |-> << >>]
    /\ playlist = << >>
    /\ category_idx = 0
    /\ emitted = << >>
    /\ bp_pc = "start"
    /\ LearnAtRest
    /\ LaterAtRest

\* targets, the four shuffles, the truncation and the loop initialisation
ShuffleAndSelect ==
    /\ bp_pc = "start"
    /\ \E sf \in Shuffles(pools["favorites"]), sh \in Shuffles(pools["hits"]),
          sd \in Shuffles(pools["discovery"]), sw \in Shuffles(pools["wildcard"]) :
          LET shuffled == FourLists(sf, sh, sd, sw)
          IN /\ pools' = shuffled
             /\ selected' = [c \in Categories |-> Take(shuffled[c], targets[c])]
    /\ playlist' = << >>
    /\ category_idx' = 0
    /\ bp_pc' = "loop"
    /\ UNCHANGED << playlist_size, weights, emitted >>
    /\ UNCHANGED nonBuild

\* one iteration of the outer loop that finds a non-empty category
InterleaveEmit ==
    /\ bp_pc = "loop"
    /\ LoopContinues(playlist, playlist_size)
    /\ LET r == InnerLoop(selected, category_idx, 0)
           cat == CatAt(r.idx)
       IN /\ r.attempts < Len(categories)
          /\ playlist' = Append(playlist, Head(selected[cat]))
          /\ selected' = [selected EXCEPT ![cat] = PopFirst(selected[cat])]
          /\ category_idx' = AdvanceAfterEmit(r.idx)
          /\ emitted' = Append(emitted,
                 [cat |-> cat,
                  others_empty |->
                      \A c \in Categories \ {cat} : selected[c] = << >>])
    /\ UNCHANGED << playlist_size, weights, pools, bp_pc >>
    /\ UNCHANGED nonBuild

\* one iteration of the outer loop that finds every category empty: break
InterleaveBreak ==
    /\ bp_pc = "loop"
    /\ LoopContinues(playlist, playlist_size)
    /\ LET r == InnerLoop(selected, category_idx, 0)
       IN /\ r.attempts >= Len(categories)
          /\ category_idx' = r.idx
    /\ bp_pc' = "done"
    /\ UNCHANGED << playlist_size, weights, pools, selected, playlist, emitted >>
    /\ UNCHANGED nonBuild

\* the outer loop condition fails: return playlist
BuildReturn ==
    /\ bp_pc = "loop"
    /\ ~ LoopContinues(playlist, playlist_size)
    /\ bp_pc' = "done"
    /\ UNCHANGED << playlist_size, weights, pools, selected, playlist,
                    category_idx, emitted >>
    /\ UNCHANGED nonBuild

BuildNext ==
    \/ ShuffleAndSelect
    \/ InterleaveEmit
    \/ InterleaveBreak
    \/ BuildReturn

BuildSpec == BuildInit /\ [][BuildNext]_vars

(***************************************************************************)
(* The preference store and update_preferences as a state machine.  One    *)
(* flow runs at a time: the store is written by a caller of                *)
(* upsert_preference or by the running learning cycle, never both.  The    *)
(* clock stands still during a cycle.                                      *)
(***************************************************************************)
BuildAtRest ==
    /\ playlist_size = 0
    /\ weights = [c \in Categories |-> 0]
    /\ pools = [c \in Categories |-> << >>]
    /\ selected = [c \in Categories |-> << >>]
    /\ playlist = << >>
    /\ category_idx = 0
    /\ emitted = << >>
    /\ bp_pc = "done"

LearnInit == LearnAtRest /\ BuildAtRest /\ LaterAtRest

\* no cycle is running and the run has a cycle left to explore
BetweenCycles == lp_pc = "idle" /\ cycles < MaxCycles

Store(k, row) ==
    /\ prefs' = [prefs EXCEPT ![k] = row]
    /\ UNCHANGED << now, lp_pc, unplayed, decaying, cycle_start, after_neg,
                    cycles, ticks >>
    /\ UNCHANGED nonLearn

\* time passes between calls
Tick ==
    /\ BetweenCycles
    /\ ticks < MaxTicks
    /\ now' = now + TickHours
    /\ ticks' = ticks + 1
    /\ UNCHANGED << prefs, lp_pc, unplayed, decaying, cycle_start, after_neg, cycles >>
    /\ UNCHANGED nonLearn

\* upsert_preference(track_id, play_count=c)
ObservePlayCount(k, c) ==
    /\ BetweenCycles
    /\ Store(k, upsert_preference(prefs[k], Some(c), None, None, None, now))

\* upsert_preference(track_id, playlist_position=pos)
RecordPlaylistPosition(k, pos) ==
    /\ BetweenCycles
    /\ Store(k, upsert_preference(prefs[k], None, Some(pos), None, None, now))

\* upsert_preference(track_id, weight=w)
StoreWeight(k, w) ==
    /\ BetweenCycles
    /\ Store(k, upsert_preference(prefs[k], None, None, Some(w), None, now))

\* update_preferences is entered and queries the hot-zone candidates
LearnBegin ==
    /\ BetweenCycles
    /\ cycles' = cycles + 1
    /\ cycle_start' = prefs
    /\ unplayed' \in Rows(prefs, get_unplayed_hot_zone_tracks(prefs, now))
    /\ lp_pc' = "neg"
    /\ UNCHANGED << prefs, now, decaying, after_neg, ticks >>
    /\ UNCHANGED nonLearn

\* one iteration of the negative-signal loop
NegativeStep ==
    /\ lp_pc = "neg"
    /\ unplayed # << >>
    /\ LET row == Head(unplayed)
           new_weight == negative_weight(row.pref.weight)
       IN prefs' = [prefs EXCEPT ![row.track] =
              upsert_preference(@, None, None, Some(new_weight), None, now)]
    /\ unplayed' = Tail(unplayed)
    /\ UNCHANGED << now, lp_pc, decaying, cycle_start, after_neg, cycles, ticks >>
    /\ UNCHANGED nonLearn

\* the negative-signal loop is over; query the decaying candidates
DecayQuery ==
    /\ lp_pc = "neg"
    /\ unplayed = << >>
    /\ after_neg' = prefs
    /\ LET store == committed_view(prefs, cycle_start)
       IN decaying' \in Rows(store, get_decaying_tracks(store, now))
    /\ lp_pc' = "decay"
    /\ UNCHANGED << prefs, now, unplayed, cycle_start, cycles, ticks >>
    /\ UNCHANGED nonLearn

\* one iteration of the decay loop
DecayStep ==
    /\ lp_pc = "decay"
    /\ decaying # << >>
    /\ LET row == Head(decaying)
       IN IF row.pref.last_played_at # None
          THEN LET new_weight ==
                       decayed_weight(row.pref.weight,
                                      days_since(now, row.pref.last_played_at[1]))
               IN prefs' = [prefs EXCEPT ![row.track] =
                      upsert_preference(@, None, None, Some(new_weight), None, now)]
          ELSE UNCHANGED prefs
    /\ decaying' = Tail(decaying)
    /\ UNCHANGED << now, lp_pc, unplayed, cycle_start, after_neg, cycles, ticks >>
    /\ UNCHANGED nonLearn

\* the decay loop is over; update_preferences returns
LearnReturn ==
    /\ lp_pc = "decay"
    /\ decaying = << >>
    /\ lp_pc' = "idle"
    /\ cycle_start' = [k \in PrefTracks |-> None]
    /\ after_neg' = [k \in PrefTracks |-> None]
    /\ UNCHANGED << prefs, now, unplayed, decaying, cycles, ticks >>
    /\ UNCHANGED nonLearn

\* upsert_preference raises inside one of the two loops (the database
\* refuses the write): no handler in update_preferences, so the exception
\* leaves the call with the rest of the rows untouched
LearnRaise ==
    /\ \/ lp_pc = "neg" /\ unplayed # << >>
       \/ lp_pc = "decay" /\ decaying # << >> /\ Head(decaying).pref.last_played_at # None
    /\ lp_pc' = "raised"
    /\ UNCHANGED << prefs, now, unplayed, decaying, cycle_start, after_neg,
                    cycles, ticks >>
    /\ UNCHANGED nonLearn

LearnNext ==
    \/ Tick
    \/ \E k \in PrefTracks, c \in 0 .. MaxPlays : ObservePlayCount(k, c)
    \/ \E k \in PrefTracks, pos \in Positions : RecordPlaylistPosition(k, pos)
    \/ \E k \in PrefTracks, w \in StoredWeights : StoreWeight(k, w)
    \/ LearnBegin
    \/ NegativeStep
    \/ DecayQuery
    \/ DecayStep
    \/ LearnReturn
    \/ LearnRaise

LearnSpec == LearnInit /\ [][LearnNext]_vars

(***************************************************************************)
(* Properties of build_playlist.                                           *)
(***************************************************************************)
Range(f) == { f[i] : i \in DOMAIN f }
NoDup(lst) == \A i, j \in 1 .. Len(lst) : lst[i] = lst[j] => i = j
Sum4(f) == f["favorites"] + f["hits"] + f["discovery"] + f["wildcard"]
WeightSum == Sum4(weights)
PoolIds == UNION { Range(pools[c]) : c \in Categories }
\* floor(N * weight[c]), stated arithmetically
FloorQuota(c) ==
    CHOOSE q \in 0 .. playlist_size :
        q * WDen <= playlist_size * weights[c]
        /\ playlist_size * weights[c] < (q + 1) * WDen
\* number of output positions filled from category c
CountCat(c) == Cardinality({ i \in 1 .. Len(emitted) : emitted[i].cat = c })
PoolsCoverQuotas == \A c \in Categories : Len(pools[c]) >= FloorQuota(c)
\* no id occurs twice in the four pools taken together
PoolsAllDistinct ==
    /\ \A c \in Categories : NoDup(pools[c])
    /\ \A c, d \in Categories : c # d => Range(pools[c]) \cap Range(pools[d]) = {}

\* C1: for every N >= 0, every four pools and every weight vector with each
\* weight in [0,1], summing to 1.0 or not, the list build_playlist returns
\* (and the list under construction at every step) holds at most N ids.
C1_LengthAtMostN == Len(playlist) <= playlist_size

\* C1 witness: the call returned exactly N > 0 ids with selected tracks left
\* over, under weights that do not sum to 1.0.
C1_Witness ==
    /\ bp_pc = "done"
    /\ playlist_size > 0
    /\ Len(playlist) = playlist_size
    /\ WeightSum # WDen
    /\ \E c \in Categories : selected[c] # << >>

\* C2 as stated: with weights summing to 1.0 and every pool at least as long
\* as floor(N * weight), build_playlist returns exactly N ids.
C2_Original_ExactlyN ==
    (bp_pc = "done" /\ WeightSum = WDen /\ PoolsCoverQuotas)
        => Len(playlist) = playlist_size

\* C2 amended: with weights summing to 1.0 and every pool at least as long as
\* floor(N * weight), build_playlist returns exactly min(N, sum of the four
\* quotas floor(N * weight)) ids, which is fewer than N whenever some
\* N * weight is not a whole number.
C2_LengthIsQuotaSum ==
    (bp_pc = "done" /\ WeightSum = WDen /\ PoolsCoverQuotas)
        => /\ Len(playlist) =
                Min(playlist_size, Sum4([c \in Categories |-> FloorQuota(c)]))
           /\ (\E c \in Categories : (playlist_size * weights[c]) % WDen # 0)
                 => Len(playlist) < playlist_size

\* C2 witness: the call returned fewer than N ids although the weights sum to
\* 1.0, every pool covers its quota and tracks were on offer.
C2_Witness ==
    /\ bp_pc = "done"
    /\ WeightSum = WDen
    /\ PoolsCoverQuotas
    /\ \E c \in Categories : weights[c] > 0 /\ pools[c] # << >>
    /\ Len(playlist) < playlist_size

\* C3 as stated: when no pool holds an id twice, the returned list holds no id
\* twice and only ids of the input pools.
C3_Original_NoDuplicates ==
    (bp_pc = "done" /\ \A c \in Categories : NoDup(pools[c]))
        => (NoDup(playlist) /\ Range(playlist) \subseteq PoolIds)

\* C3 amended: when no id occurs twice in the four pools taken together (no
\* pool holds an id twice and no id is in two pools), the returned list holds
\* no id twice; and in every case it holds only ids of the input pools.
C3_NoDuplicatesWhenDisjoint ==
    /\ Range(playlist) \subseteq PoolIds
    /\ (bp_pc = "done" /\ PoolsAllDistinct) => NoDup(playlist)

\* C3 witness: two tracks of two different pools were returned from pools
\* that share no id.
C3_Witness ==
    /\ bp_pc = "done"
    /\ PoolsAllDistinct
    /\ Len(playlist) >= 2
    /\ emitted[1].cat # emitted[2].cat

C5_ConsecutiveOnlyWhenOthersExhausted ==
    \A i \in 2 .. Len(emitted) :
        emitted[i].cat = emitted[i - 1].cat => emitted[i].others_empty

\* C5 witness: a returned list with two adjacent positions of the same
\* category, built from pools of which another category held a track too.
C5_Witness ==
    /\ bp_pc = "done"
    /\ \E i \in 2 .. Len(emitted) :
          /\ emitted[i].cat = emitted[i - 1].cat
          /\ \E c \in Categories \ {emitted[i].cat} : pools[c] # << >>

(***************************************************************************)
(* Properties of the learning engine.                                      *)
(***************************************************************************)
WeightFloor == Frac(1, 10)
WeightCeiling == Frac(5, 1)
\* the negative-signal predicate, as the claims state it
NegativeSignal(row, t) ==
    /\ row # None
    /\ row[1].playlist_position # None
    /\ row[1].playlist_position[1] <= hot_zone_size
    /\ row[1].added_to_playlist_at # None
    /\ t - row[1].added_to_playlist_at[1] >= hot_zone_hours
    /\ row[1].play_count = row[1].play_count_previous
\* the decay predicate, as the claims state it
Decays(row, t) ==
    /\ row # None
    /\ row[1].last_played_at # None
    /\ t - row[1].last_played_at[1] > decay_days * HoursPerDay
\* max(0.1, 0.7 * w)
ClaimedNegative(w) ==
    IF 7 * w[1] * 10 < 10 * w[2] THEN Frac(1, 10) ELSE Frac(7 * w[1], 10 * w[2])
\* w * max(0.5, 1 - (whole days since play - decay_days) * 0.02)
ClaimedDecay(row, t, w) ==
    LET whole_days == CHOOSE n \in 0 .. t :
                          n * HoursPerDay <= t - row[1].last_played_at[1]
                          /\ t - row[1].last_played_at[1] < (n + 1) * HoursPerDay
        pct == 100 - 2 * (whole_days - decay_days)
    IN IF pct < 50 THEN Frac(w[1], 2 * w[2]) ELSE Frac(w[1] * pct, w[2] * 100)
Pending(rows, k) == \E i \in DOMAIN rows : rows[i].track = k

C7_NegativeSignalStep ==
    lp_pc = "neg" =>
        \A k \in PrefTracks :
            prefs[k] =
                IF NegativeSignal(cycle_start[k], now) /\ ~ Pending(unplayed, k)
                THEN Some([cycle_start[k][1] EXCEPT
                              !.weight = ClaimedNegative(@)])
                ELSE cycle_start[k]

\* C7 witness: the negative-signal pass is over; it lowered one track's weight
\* and left alone a track that fails only the position condition.
C7_Witness ==
    /\ lp_pc = "neg"
    /\ unplayed = << >>
    /\ \E k, j \in PrefTracks :
          /\ NegativeSignal(cycle_start[k], now)
          /\ prefs[k][1].weight # cycle_start[k][1].weight
          /\ cycle_start[j] # None
          /\ cycle_start[j][1].playlist_position = Some(hot_zone_size + 1)
          /\ now - cycle_start[j][1].added_to_playlist_at[1] >= hot_zone_hours
          /\ cycle_start[j][1].play_count = cycle_start[j][1].play_count_previous
          /\ prefs[j] = cycle_start[j]

\* C8 as stated: when an observed play count exceeds the stored one by
\* delta > 0, the track's weight becomes min(5.0, weight * (1 + delta * 0.1)).
C8_PositiveSignalBoost ==
    [][ \A k \in PrefTracks :
          (/\ prefs[k] # None
           /\ prefs'[k] # None
           /\ prefs'[k][1].play_count > prefs[k][1].play_count)
          => prefs'[k][1].weight =
                 RMin(WeightCeiling,
                      RMul(prefs[k][1].weight,
                           Frac(10 + prefs'[k][1].play_count
                                   - prefs[k][1].play_count, 10))) ]_vars

lower(s) ==
    CASE s = "Song" -> "song"
      [] s = "SONG" -> "song"
      [] s = "Else" -> "else"
      [] s = "Muse" -> "muse"
      [] s = "MUSE" -> "muse"
      [] s = "Song (Remix)" -> "song (remix)"
      [] OTHER -> s

TrackNames == { "Song", "SONG", "Else" }
ArtistNames == { "Muse" }

\* id of a catalog song and of a library song: the resource type and a number
CatalogId(n) == << "songs", n >>
LibraryId(n) == << "library-songs", n >>

\* datetime.year of a day
Year(day) == day \div DaysPerYear

\* TrackAttributes.release_date, the string the catalog sends: absent, a bare
\* year "YYYY", a date "YYYY-MM-DD", or a timestamp carrying a UTC offset
ReleaseDays ==
    { NowDay - new_release_days, NowDay - new_release_days - 1, NowDay - DaysPerYear }
ReleaseDates ==
    { None }
    \cup { [form |-> "YYYY", day |-> Year(NowDay - DaysPerYear) * DaysPerYear] }
    \cup { [form |-> f, day |-> d] : f \in { "YYYY-MM-DD", "offset" }, d \in ReleaseDays }

\* TrackAttributes.release_datetime: fromisoformat, then strptime "%Y-%m-%d",
\* then None.  A bare year parses with neither; a date gives a naive datetime,
\* a timestamp with an offset an aware one
release_datetime(release_date) ==
    IF release_date = None THEN None
    ELSE CASE release_date.form = "YYYY" -> None
           [] release_date.form = "YYYY-MM-DD" ->
                  Some([day |-> release_date.day, aware |-> FALSE])
           [] release_date.form = "offset" ->
                  Some([day |-> release_date.day, aware |-> TRUE])

\* the Track resources the catalog can send
TrackAttributesSet ==
    { None }
    \cup { Some([name |-> n, artist_name |-> a, release_date |-> r]) :
             n \in TrackNames, a \in ArtistNames, r \in ReleaseDates }
Tracks == { [id |-> CatalogId(i), attributes |-> at] :
              i \in 1 .. MaxTopSongs, at \in TrackAttributesSet }

\* the LibraryTrack resources of the user's library
LibraryTracks ==
    { [attributes |-> None] }
    \cup { [attributes |-> Some([name |-> n, artist_name |-> a])] :
             n \in TrackNames, a \in ArtistNames }

\* f"{artist_name.lower()}:{name.lower()}"
track_key(artist_name, name) == << lower(artist_name), lower(name) >>

\* the set comprehension over library_tracks
library_keys ==
    { track_key(t.attributes[1].artist_name, t.attributes[1].name) :
        t \in { u \in library_tracks : u.attributes # None } }

\* now - timedelta(days=new_release_days), an aware datetime
wildcard_cutoff == NowDay - new_release_days

\* the year filter: a parsed release date whose year is below the minimum
year_filtered(track) ==
    /\ track.attributes # None
    /\ LET rdt == release_datetime(track.attributes[1].release_date)
       IN rdt # None /\ Year(rdt[1].day) < min_release_year

\* comparing a naive datetime with the aware cutoff raises TypeError
compare_raises(track) ==
    LET rdt == release_datetime(track.attributes[1].release_date)
    IN rdt # None /\ ~ rdt[1].aware

\* the if / elif / else that picks the list
category_of(track) ==
    LET a == track.attributes[1]
        rdt == release_datetime(a.release_date)
    IN IF rdt # None /\ rdt[1].day >= wildcard_cutoff THEN "wildcard"
       ELSE IF track_key(a.artist_name, a.name) \in library_keys THEN "hits"
       ELSE "discovery"

\* TrackInfo(id, name, artist_name)
TrackInfo(track) ==
    [id |-> track.id, name |-> track.attributes[1].name,
     artist_name |-> track.attributes[1].artist_name]

\* Repository.upsert_track on the columns the model keeps
upsert_track(store, apple_music_id, name, artist_name) ==
    { r \in store : r.apple_music_id # apple_music_id }
    \cup { [apple_music_id |-> apple_music_id, name |-> name,
            artist_name |-> artist_name] }

\* the catalog sends one resource per id, and ids are numbered in the order
\* of their first appearance
CatalogConsistent(track) ==
    /\ \A i \in 1 .. Len(top_songs) :
           top_songs[i].id = track.id => top_songs[i] = track
    /\ \/ \E i \in 1 .. Len(top_songs) : top_songs[i].id = track.id
       \/ track.id = CatalogId(Cardinality({ top_songs[i].id : i \in 1 .. Len(top_songs) }) + 1)

CollectInit ==
    /\ min_release_year \in { Year(NowDay), Year(NowDay) + 1 }
    /\ library_tracks \in { L \in SUBSET LibraryTracks : Cardinality(L) <= MaxLibrary }
    /\ top_songs = << >>
    /\ tracks_by_category = [c \in CollectCategories |-> << >>]
    /\ track_store = {}
    /\ ct_pc = "loop"
    /\ BuildAtRest
    /\ LearnAtRest
    /\ PublishAtRest
    /\ StoresAtRest

\* one iteration of "for track in top_songs" that ends in a continue
CollectSkip(track) ==
    /\ ct_pc = "loop"
    /\ Len(top_songs) < MaxTopSongs
    /\ CatalogConsistent(track)
    /\ track.attributes = None \/ year_filtered(track)
    /\ top_songs' = Append(top_songs, track)
    /\ UNCHANGED << min_release_year, library_tracks, tracks_by_category,
                    track_store, ct_pc >>
    /\ UNCHANGED nonCollect

\* one iteration in which the comparison with the cutoff raises
CollectRaise(track) ==
    /\ ct_pc = "loop"
    /\ Len(top_songs) < MaxTopSongs
    /\ CatalogConsistent(track)
    /\ track.attributes # None
    /\ ~ year_filtered(track)
    /\ compare_raises(track)
    /\ top_songs' = Append(top_songs, track)
    /\ ct_pc' = "raised"
    /\ UNCHANGED << min_release_year, library_tracks, tracks_by_category,
                    track_store >>
    /\ UNCHANGED nonCollect

\* one iteration that appends the track to a list and stores it
CollectClassify(track) ==
    /\ ct_pc = "loop"
    /\ Len(top_songs) < MaxTopSongs
    /\ CatalogConsistent(track)
    /\ track.attributes # None
    /\ ~ year_filtered(track)
    /\ ~ compare_raises(track)
    /\ top_songs' = Append(top_songs, track)
    /\ tracks_by_category' =
           [tracks_by_category EXCEPT ![category_of(track)] = Append(@, TrackInfo(track))]
    /\ track_store' = upsert_track(track_store, track.id, track.attributes[1].name,
                                   track.attributes[1].artist_name)
    /\ UNCHANGED << min_release_year, library_tracks, ct_pc >>
    /\ UNCHANGED nonCollect

\* the loops are over: return tracks_by_category
CollectReturn ==
    /\ ct_pc = "loop"
    /\ ct_pc' = "returned"
    /\ UNCHANGED << min_release_year, library_tracks, top_songs,
                    tracks_by_category, track_store >>
    /\ UNCHANGED nonCollect

CollectNext ==
    \/ \E track \in Tracks : CollectSkip(track)
    \/ \E track \in Tracks : CollectRaise(track)
    \/ \E track \in Tracks : CollectClassify(track)
    \/ CollectReturn

CollectSpec == CollectInit /\ [][CollectNext]_vars

(***************************************************************************)
(* Claims about collect_tracks.                                            *)
(***************************************************************************)
Consumed == { top_songs[i] : i \in 1 .. Len(top_songs) }
InPool(c, track) ==
    \E i \in 1 .. Len(tracks_by_category[c]) : tracks_by_category[c][i].id = track.id
PoolsHolding(track) == { c \in CollectCategories : InPool(c, track) }
\* the track carries a release date, whatever its form
HasReleaseDate(track) ==
    track.attributes # None /\ track.attributes[1].release_date # None
\* the release date is a point in time, not a bare year
HasReleaseTimestamp(track) ==
    HasReleaseDate(track) /\ track.attributes[1].release_date.form # "YYYY"
ReleaseDay(track) == track.attributes[1].release_date.day
\* rejected: no attributes to classify by, or released before the minimum year
Rejected(track) ==
    \/ track.attributes = None
    \/ HasReleaseDate(track) /\ Year(ReleaseDay(track)) < min_release_year
Recent(track) ==
    HasReleaseTimestamp(track) /\ ReleaseDay(track) >= NowDay - new_release_days
InLibraryIndex(track) ==
    \E t \in library_tracks :
        /\ t.attributes # None
        /\ lower(t.attributes[1].artist_name) = lower(track.attributes[1].artist_name)
        /\ lower(t.attributes[1].name) = lower(track.attributes[1].name)

\* C11 as stated: every consumed track that is not rejected and whose release
\* timestamp is at or after now - new_release_days is in the wildcard list and
\* in no other list, whether or not its key is in the library index.
C11_RecentIsWildcard ==
    \A track \in Consumed :
        (~ Rejected(track) /\ Recent(track)) => PoolsHolding(track) = { "wildcard" }

\* C12 as stated: every consumed track that is not rejected is in exactly one
\* of the three lists, and one that is not recent (no release timestamp, or one
\* older than the cutoff) is in hits exactly when its lower-cased artist:name
\* key is in the library index and in discovery otherwise.
C12_KnownIsHitsElseDiscovery ==
    \A track \in Consumed :
        ~ Rejected(track) =>
            /\ Cardinality(PoolsHolding(track)) = 1
            /\ ~ Recent(track) =>
                   PoolsHolding(track) =
                       IF InLibraryIndex(track) THEN { "hits" } ELSE { "discovery" }

\* C13 as stated: a consumed track whose release year is below
\* min_release_year is in none of the three lists, however recent and whether
\* or not it is in the library.
C13_OldYearInNoPool ==
    \A track \in Consumed :
        (HasReleaseDate(track) /\ Year(ReleaseDay(track)) < min_release_year)
            => PoolsHolding(track) = {}

(***************************************************************************)
(* create_or_update_playlist as a state machine.  The music service holds  *)
(* a fixed table of songs; at most one library playlist carries the        *)
(* configured name.                                                        *)
(***************************************************************************)
\* normalize_song_name on the names of the model: lower and strip, then the
\* NORMALIZE_PATTERNS cut a bracketed "(Remix)" off
normalize_song_name(name) ==
    CASE name = "Song" -> "song"
      [] name = "SONG" -> "song"
      [] name = "Song (Remix)" -> "song"
      [] name = "Else" -> "else"
      [] OTHER -> lower(name)

\* the songs of the music service; song n of the catalog and song n of the
\* library are Songs[n], counted round the table
Songs == << [name |-> "Song", artist_name |-> "Muse"],
            [name |-> "Song (Remix)", artist_name |-> "MUSE"],
            [name |-> "Else", artist_name |-> "Muse"] >>
song_of(id) == Songs[((id[2] - 1) % Len(Songs)) + 1]

CatalogIds == { CatalogId(n) : n \in 1 .. MaxCatalog }
LibraryIds == { LibraryId(n) : n \in 1 .. MaxLibrarySongs }

\* a LibraryTrack of a playlist: with attributes, or without
PlaylistTracks ==
    { [attributes |-> None] }
    \cup { [attributes |-> Some(Songs[i])] : i \in 1 .. Len(Songs) }
PlaylistTrackOf(id) == [attributes |-> Some(song_of(id))]
PlaylistTracksOf(ids) == [i \in 1 .. Len(ids) |-> PlaylistTrackOf(ids[i])]

\* the TrackRecords that collect_tracks stored for a set of catalog ids
StoreOf(ids) ==
    { [apple_music_id |-> id, name |-> song_of(id).name,
       artist_name |-> song_of(id).artist_name] : id \in ids }

\* Repository.get_track_by_apple_id
get_track_by_apple_id(store, apple_music_id) ==
    IF \E r \in store : r.apple_music_id = apple_music_id
    THEN Some(CHOOSE r \in store : r.apple_music_id = apple_music_id)
    ELSE None

\* f"{artist_name.lower()}:{normalized_name}"
playlist_key(artist_name, name) == << lower(artist_name), normalize_song_name(name) >>

\* the existing_keys loop over existing_tracks
keys_of_existing(tracks) ==
    { playlist_key(tracks[i].attributes[1].artist_name, tracks[i].attributes[1].name) :
        i \in { j \in 1 .. Len(tracks) : tracks[j].attributes # None } }

\* get_library_playlist_tracks: the first page of the playlist, or [] when
\* the request fails in any way
get_library_playlist_tracks(tracks, ok) ==
    IF ok THEN Take(tracks, playlist_tracks_limit) ELSE << >>

PublishInit ==
    /\ track_ids \in SeqsUpTo(CatalogIds \cup LibraryIds, MaxCandidates)
    /\ track_store \in
           { StoreOf(S) : S \in { T \in SUBSET CatalogIds :
                 \A i \in 1 .. Len(track_ids) :
                     track_ids[i] \in CatalogIds => track_ids[i] \in T } }
    /\ managed \in { None } \cup { Some(q) : q \in SeqsUpTo(PlaylistTracks, MaxExisting) }
    /\ playlist_before = managed
    /\ existing_tracks = << >>
    /\ existing_keys = {}
    /\ new_track_ids = << >>
    /\ pb_idx = 0
    /\ sent = << >>
    /\ pb_pc = "start"
    /\ CollectIdle
    /\ BuildAtRest
    /\ LearnAtRest
    /\ StoresAtRest

\* get_library_playlists answers: matching is empty or holds the playlist
PublishLookup ==
    /\ pb_pc = "start"
    /\ pb_pc' = IF managed = None THEN "create" ELSE "fetch"
    /\ UNCHANGED << track_ids, managed, playlist_before, existing_tracks,
                    existing_keys, new_track_ids, pb_idx, sent >>
    /\ UNCHANGED nonPublish

\* create_library_playlist with every candidate id
PublishCreate ==
    /\ pb_pc = "create"
    /\ managed' = Some(PlaylistTracksOf(track_ids))
    /\ sent' = track_ids
    /\ pb_pc' = "returned"
    /\ UNCHANGED << track_ids, playlist_before, existing_tracks, existing_keys,
                    new_track_ids, pb_idx >>
    /\ UNCHANGED nonPublish

\* get_library_playlist_tracks answers or fails; the working set is built
PublishFetch(ok) ==
    /\ pb_pc = "fetch"
    /\ existing_tracks' = get_library_playlist_tracks(managed[1], ok)
    /\ existing_keys' = keys_of_existing(existing_tracks')
    /\ pb_pc' = "filter"
    /\ UNCHANGED << track_ids, managed, playlist_before, new_track_ids, pb_idx, sent >>
    /\ UNCHANGED nonPublish

\* one iteration of "for tid in track_ids"
PublishFilterStep ==
    /\ pb_pc = "filter"
    /\ pb_idx < Len(track_ids)
    /\ LET tid == track_ids[pb_idx + 1]
           track == get_track_by_apple_id(track_store, tid)
       IN IF track # None
             /\ playlist_key(track[1].artist_name, track[1].name) \notin existing_keys
          THEN /\ new_track_ids' = Append(new_track_ids, tid)
               /\ existing_keys' = existing_keys
                      \cup { playlist_key(track[1].artist_name, track[1].name) }
          ELSE UNCHANGED << new_track_ids, existing_keys >>
    /\ pb_idx' = pb_idx + 1
    /\ UNCHANGED << track_ids, managed, playlist_before, existing_tracks, sent, pb_pc >>
    /\ UNCHANGED nonPublish

\* the loop is over: add_tracks_to_library_playlist if anything is new
PublishAdd ==
    /\ pb_pc = "filter"
    /\ pb_idx = Len(track_ids)
    /\ IF new_track_ids # << >>
       THEN /\ managed' = Some(managed[1] \o PlaylistTracksOf(new_track_ids))
            /\ sent' = new_track_ids
       ELSE UNCHANGED << managed, sent >>
    /\ pb_pc' = "returned"
    /\ UNCHANGED << track_ids, playlist_before, existing_tracks, existing_keys,
                    new_track_ids, pb_idx >>
    /\ UNCHANGED nonPublish

\* get_library_playlists, create_library_playlist or
\* add_tracks_to_library_playlist raises: the call is left by the exception
PublishRaise ==
    /\ \/ pb_pc = "start"
       \/ pb_pc = "create"
       \/ pb_pc = "filter" /\ pb_idx = Len(track_ids) /\ new_track_ids # << >>
    /\ pb_pc' = "raised"
    /\ UNCHANGED << track_ids, managed, playlist_before, existing_tracks,
                    existing_keys, new_track_ids, pb_idx, sent >>
    /\ UNCHANGED nonPublish

PublishNext ==
    \/ PublishLookup
    \/ PublishCreate
    \/ \E ok \in BOOLEAN : PublishFetch(ok)
    \/ PublishFilterStep
    \/ PublishAdd
    \/ PublishRaise

PublishSpec == PublishInit /\ [][PublishNext]_vars

(***************************************************************************)
(* Claims about create_or_update_playlist.                                 *)
(***************************************************************************)
\* the call added to a playlist that existed when it began
AddedToExisting == pb_pc = "returned" /\ playlist_before # None
\* (lower-cased artist, normalized name) of the song behind an id
KeyOfId(id) == << lower(song_of(id).artist_name), normalize_song_name(song_of(id).name) >>
\* keys of the tracks in the playlist when the call began
KeysBefore ==
    { << lower(playlist_before[1][i].attributes[1].artist_name),
         normalize_song_name(playlist_before[1][i].attributes[1].name) >> :
        i \in { j \in 1 .. Len(playlist_before[1]) :
                  playlist_before[1][j].attributes # None } }
IsSubsequence(sub, seq) ==
    \E f \in [1 .. Len(sub) -> 1 .. Len(seq)] :
        /\ \A i \in 1 .. Len(sub) : seq[f[i]] = sub[i]
        /\ \A i, j \in 1 .. Len(sub) : i < j => f[i] < f[j]

\* C14 as stated: when tracks are added to an existing playlist, the ids sent
\* are a subsequence of the candidates, none has the key of a track that was
\* already in the playlist, and no two have the same key.
C14_AddedIdsAreNew ==
    AddedToExisting =>
        /\ IsSubsequence(sent, track_ids)
        /\ \A i \in 1 .. Len(sent) : KeyOfId(sent[i]) \notin KeysBefore
        /\ \A i, j \in 1 .. Len(sent) : i # j => KeyOfId(sent[i]) # KeyOfId(sent[j])

\* C15 as stated: when tracks are added to an existing playlist, every
\* candidate whose key is neither the key of a track already in the playlist
\* nor the key of an earlier candidate is among the ids sent.
C15_EveryNewKeyIsAdded ==
    AddedToExisting =>
        \A j \in 1 .. Len(track_ids) :
            ( /\ KeyOfId(track_ids[j]) \notin KeysBefore
              /\ \A i \in 1 .. (j - 1) : KeyOfId(track_ids[i]) # KeyOfId(track_ids[j]) )
            => \E k \in 1 .. Len(sent) : sent[k] = track_ids[j]

(***************************************************************************)
(* refresh_playlist as a state machine.  A run walks through the steps of  *)
(* the try block; a step ends normally or raises.  Nothing keeps a caller  *)
(* from starting a run while another is under way, except the scheduler,   *)
(* which runs one instance of its job at a time.                           *)
(***************************************************************************)
\* the awaited calls of the try block, in order
steps == << "init_db", "update_preferences", "discover_artists", "collect_tracks",
            "get_favorites", "build_playlist", "create_or_update_playlist",
            "upsert_playlist_state", "log_sync" >>
Steps == { steps[i] : i \in 1 .. Len(steps) }
step_after(step) == steps[(CHOOSE i \in 1 .. Len(steps) : steps[i] = step) + 1]

\* who calls refresh_playlist: POST /refresh, the nightly job, `curator refresh`
Callers == { "web", "scheduler", "cli" }

\* failures of the music service that AppleMusicClient._request raises
CollaboratorErrors == { "AuthenticationError", "AppleMusicError" }

\* the exceptions a step lets through to refresh_playlist
raises_at(step) ==
    CASE step = "init_db" -> { "DatabaseError" }
      [] step = "update_preferences" -> { "DatabaseError" }
      [] step = "discover_artists" -> CollaboratorErrors \cup { "DatabaseError" }
      [] step = "collect_tracks" -> CollaboratorErrors \cup { "DatabaseError", "TypeError" }
      [] step = "get_favorites" -> CollaboratorErrors \cup { "DatabaseError" }
      [] step = "build_playlist" -> {}
      [] step = "create_or_update_playlist" -> CollaboratorErrors \cup { "DatabaseError" }
      [] step = "upsert_playlist_state" -> { "DatabaseError" }
      [] step = "log_sync" -> { "DatabaseError" }

\* the steps holding a call whose failure the client catches and turns into
\* an empty answer: get_related_artists and search_artist, get_artist_top_songs,
\* get_library_playlist_tracks
swallows_at(step) ==
    step \in { "discover_artists", "collect_tracks", "create_or_update_playlist" }

\* a run that is inside refresh_playlist
Active(run) == run.pc \notin { "returned", "raised" }

\* sync_logs row written by log_sync
SyncLog(run, status, error_message) ==
    [run |-> run, status |-> status, error_message |-> error_message]

RefreshInit ==
    /\ runs = << >>
    /\ run_log = << >>
    /\ TablesAtRest
    /\ BuildAtRest
    /\ LearnAtRest
    /\ CollectAtRest
    /\ PublishAtRest
    /\ ArtistAtRest
    /\ UpsertAtRest

\* a caller enters refresh_playlist
RefreshStart(caller) ==
    /\ Len(runs) < MaxRuns
    /\ caller = "scheduler" =>
           \A i \in 1 .. Len(runs) : runs[i].caller = "scheduler" => ~ Active(runs[i])
    /\ runs' = Append(runs, [caller |-> caller, pc |-> steps[1], error |-> None,
                             collaborator_failed |-> FALSE, published |-> FALSE,
                             logged |-> << >>])
    /\ UNCHANGED run_log
    /\ UNCHANGED nonRefresh

\* a step before log_sync completes
RefreshStep(r) ==
    /\ r \in 1 .. Len(runs)
    /\ runs[r].pc \in Steps \ { "log_sync" }
    /\ runs' = [runs EXCEPT ![r].pc = step_after(@),
                            ![r].published =
                                @ \/ runs[r].pc = "create_or_update_playlist"]
    /\ UNCHANGED run_log
    /\ UNCHANGED nonRefresh

\* a call to a collaborator fails and the client answers with nothing
RefreshSwallow(r) ==
    /\ r \in 1 .. Len(runs)
    /\ runs[r].pc \in Steps
    /\ swallows_at(runs[r].pc)
    /\ runs' = [runs EXCEPT ![r].collaborator_failed = TRUE]
    /\ UNCHANGED run_log
    /\ UNCHANGED nonRefresh

\* a step raises: control passes to the except clauses
RefreshRaise(r, e) ==
    /\ r \in 1 .. Len(runs)
    /\ runs[r].pc \in Steps \ { "log_sync" }
    /\ e \in raises_at(runs[r].pc)
    /\ runs' = [runs EXCEPT ![r].pc = "except",
                            ![r].error = Some(e),
                            ![r].collaborator_failed = @ \/ e \in CollaboratorErrors]
    /\ UNCHANGED run_log
    /\ UNCHANGED nonRefresh

\* log_sync(status="success"): the row is written, or the call raises
RefreshLogSuccess(r, ok) ==
    /\ r \in 1 .. Len(runs)
    /\ runs[r].pc = "log_sync"
    /\ IF ok
       THEN /\ run_log' = Append(run_log, SyncLog(r, "success", None))
            /\ runs' = [runs EXCEPT ![r].pc = "returned",
                                    ![r].logged = Append(@, SyncLog(r, "success", None))]
       ELSE /\ runs' = [runs EXCEPT ![r].pc = "except",
                                    ![r].error = Some("DatabaseError")]
            /\ UNCHANGED run_log
    /\ UNCHANGED nonRefresh

\* the except clause: log_sync with auth_failure or failure and str(e), then
\* raise; when log_sync raises, its exception leaves refresh_playlist instead
RefreshLogFailure(r, ok) ==
    /\ r \in 1 .. Len(runs)
    /\ runs[r].pc = "except"
    /\ LET status == IF runs[r].error = Some("AuthenticationError")
                     THEN "auth_failure" ELSE "failure"
           entry == SyncLog(r, status, runs[r].error)
       IN IF ok
          THEN /\ run_log' = Append(run_log, entry)
               /\ runs' = [runs EXCEPT ![r].pc = "raised",
                                       ![r].logged = Append(@, entry)]
          ELSE /\ runs' = [runs EXCEPT ![r].pc = "raised"]
               /\ UNCHANGED run_log
    /\ UNCHANGED nonRefresh

\* POST /api/logs/clear: clear_sync_logs deletes every row of sync_logs
ClearLogs ==
    /\ run_log' = << >>
    /\ UNCHANGED runs
    /\ UNCHANGED nonRefresh

RefreshNext ==
    \/ \E caller \in Callers : RefreshStart(caller)
    \/ \E r \in 1 .. MaxRuns : RefreshStep(r)
    \/ \E r \in 1 .. MaxRuns : RefreshSwallow(r)
    \/ \E r \in 1 .. MaxRuns, e \in CollaboratorErrors \cup { "DatabaseError", "TypeError" } :
           RefreshRaise(r, e)
    \/ \E r \in 1 .. MaxRuns, ok \in BOOLEAN : RefreshLogSuccess(r, ok)
    \/ \E r \in 1 .. MaxRuns, ok \in BOOLEAN : RefreshLogFailure(r, ok)
    \/ ClearLogs

RefreshSpec == RefreshInit /\ [][RefreshNext]_vars

(***************************************************************************)
(* Claims about refresh_playlist.                                          *)
(***************************************************************************)
Finished(r) == ~ Active(runs[r])
FailureStatuses == { "failure", "auth_failure" }

\* C16 as stated: every finished run of refresh_playlist has appended exactly
\* one run-log entry: with status success when every step completed, and with
\* a failure status and the error message when a step raised.
C16_OneEntryPerRun ==
    \A r \in 1 .. Len(runs) :
        Finished(r) =>
            /\ Len(runs[r].logged) = 1
            /\ runs[r].error = None => runs[r].logged[1].status = "success"
            /\ runs[r].error # None =>
                   /\ runs[r].logged[1].status \in FailureStatuses
                   /\ runs[r].logged[1].error_message = runs[r].error

\* C17 as stated: a finished run in which a call to the music service or to
\* the artist filter service failed has published no track and has recorded a
\* failed run-log entry.
C17_CollaboratorFailureAborts ==
    \A r \in 1 .. Len(runs) :
        (Finished(r) /\ runs[r].collaborator_failed) =>
            /\ ~ runs[r].published
            /\ \E i \in 1 .. Len(runs[r].logged) :
                   runs[r].logged[i].status \in FailureStatuses

\* C18 as stated: at most one run of refresh_playlist is active at any time.
C18_OneActiveRun ==
    Cardinality({ r \in 1 .. Len(runs) : Active(runs[r]) }) <= 1

\* C21 as stated: the run log is append-only: every step leaves each entry
\* already in the log in place and unchanged, so the log only grows.
C21_RunLogAppendOnly ==
    [][ /\ Len(run_log') >= Len(run_log)
        /\ \A i \in 1 .. Len(run_log) : run_log'[i] = run_log[i] ]_vars

(***************************************************************************)
(* Table artists under Repository.upsert_artist, on the columns name and   *)
(* is_seed; musicbrainz_id, gender and country are left out: no call       *)
(* passes them.  No operation deletes an artist.                           *)
(***************************************************************************)
ArtistRecordNames == { "Muse", "MUSE" }

\* upsert_artist on the row `row` (None when the artist is not stored)
upsert_artist_overwrite(row, name, is_seed) ==
    Some([name |-> name, is_seed |-> is_seed])
upsert_artist(row, name, is_seed) ==
    IF row # None
    THEN Some([name |-> name, is_seed |-> is_seed \/ row[1].is_seed])
    ELSE Some([name |-> name, is_seed |-> is_seed])

ArtistInit ==
    /\ ArtistAtRest
    /\ TablesAtRest
    /\ BuildAtRest
    /\ LearnAtRest
    /\ CollectAtRest
    /\ PublishAtRest
    /\ RefreshAtRest
    /\ UpsertAtRest

\* a call upsert_artist(apple_music_id=a, name=name, is_seed=is_seed):
\* discover_artists passes is_seed=True for a seed and the default False for a
\* related artist
UpsertArtist(a, name, is_seed) ==
    /\ Len(artist_calls) < MaxArtistCalls
    /\ artists' = [artists EXCEPT ![a] = upsert_artist(@, name, is_seed)]
    /\ was_seed' = { b \in ArtistIds :
                       b \in was_seed \/ (artists'[b] # None /\ artists'[b][1].is_seed) }
    /\ artist_calls' = Append(artist_calls, [id |-> a, is_seed |-> is_seed])
    /\ UNCHANGED nonArtist

ArtistNext ==
    \E a \in ArtistIds, name \in ArtistRecordNames, is_seed \in BOOLEAN :
        UpsertArtist(a, name, is_seed)

ArtistSpec == ArtistInit /\ [][ArtistNext]_vars

\* C19: an artist whose stored is_seed flag has once been true is stored with
\* is_seed true ever after, whatever upsert_artist calls follow.
C19_SeedFlagMonotonic ==
    \A a \in was_seed : artists[a] # None /\ artists[a][1].is_seed

\* a seed artist was upserted again with is_seed=False and is still a seed
C19_Witness ==
    \E i, j \in 1 .. Len(artist_calls) :
        /\ i < j
        /\ artist_calls[i].id = artist_calls[j].id
        /\ artist_calls[i].is_seed
        /\ ~ artist_calls[j].is_seed
        /\ artists[artist_calls[j].id][1].is_seed

(***************************************************************************)
(* One row of table preferences under Repository.upsert_preference, with   *)
(* every combination of arguments.  The clock reads the number of calls    *)
(* made so far.                                                            *)
(***************************************************************************)
UpsertArgs ==
    [play_count : { None } \cup { Some(c) : c \in 0 .. MaxPlays },
     playlist_position : { None, Some(hot_zone_size) },
     weight : { None, Some(Frac(5, 1)) },
     last_played_at : { None, Some(0) }]

UpsertInit ==
    /\ UpsertAtRest
    /\ TablesAtRest
    /\ BuildAtRest
    /\ LearnAtRest
    /\ CollectAtRest
    /\ PublishAtRest
    /\ RefreshAtRest
    /\ ArtistAtRest

\* a call of upsert_preference for the track, at time Len(up_calls) + 1
UpsertPreference(args) ==
    /\ Len(up_calls) < MaxUpserts
    /\ up_before' = up_row
    /\ up_row' = upsert_preference(up_row, args.play_count, args.playlist_position,
                                   args.weight, args.last_played_at, Len(up_calls) + 1)
    /\ up_calls' = Append(up_calls, args)
    /\ UNCHANGED nonUpsert

UpsertNext == \E args \in UpsertArgs : UpsertPreference(args)

UpsertSpec == UpsertInit /\ [][UpsertNext]_vars

\* the last call, and the time it read from the clock
LastCall == up_calls[Len(up_calls)]
LastCallTime == Len(up_calls)
OnExistingRow == up_calls # << >> /\ up_before # None

\* C20: a call on an existing Preference that carries a play count c stores
\* the play_count held before as play_count_previous and c as play_count, and
\* (when the call names no last_played_at of its own) sets last_played_at to
\* now if c exceeds the count held before and leaves it alone otherwise; a
\* call that carries no play count leaves play_count and play_count_previous
\* as they were.
C20_PlayCountUpdate ==
    OnExistingRow =>
        /\ LastCall.play_count # None =>
               /\ up_row[1].play_count_previous = up_before[1].play_count
               /\ up_row[1].play_count = LastCall.play_count[1]
               /\ LastCall.last_played_at = None =>
                      up_row[1].last_played_at =
                          IF LastCall.play_count[1] > up_before[1].play_count
                          THEN Some(LastCallTime)
                          ELSE up_before[1].last_played_at
        /\ LastCall.play_count = None =>
               /\ up_row[1].play_count = up_before[1].play_count
               /\ up_row[1].play_count_previous = up_before[1].play_count_previous

\* the count went up on an existing row and last_played_at moved to now
C20_Witness ==
    /\ OnExistingRow
    /\ LastCall.play_count # None
    /\ LastCall.last_played_at = None
    /\ LastCall.play_count[1] > up_before[1].play_count
    /\ up_row[1].play_count_previous = up_before[1].play_count
    /\ up_row[1].last_played_at = Some(LastCallTime)
    /\ up_before[1].last_played_at # Some(LastCallTime)

(***************************************************************************)
(* Further properties of build_playlist.                                   *)
(***************************************************************************)
\* build_playlist is straight-line code around two loops and awaits nothing:
\* once called it keeps taking steps
BuildLiveSpec == BuildSpec /\ WF_vars(BuildNext)

AllSelectedEmpty == \A c \in Categories : selected[c] = << >>

\* C25: build_playlist always terminates, and when it has returned the output
\* holds exactly playlist_size ids, or fewer with all four truncated lists
\* empty; no step of it raises.
C25_BuildTerminates ==
    /\ <>(bp_pc = "done")
    /\ [](bp_pc = "done" =>
             \/ Len(playlist) = playlist_size
             \/ Len(playlist) < playlist_size /\ AllSelectedEmpty)

\* build_playlist returned fewer than playlist_size ids, some of them from
\* the pools, because the truncated lists ran out
C25_Witness ==
    /\ bp_pc = "done"
    /\ playlist # << >>
    /\ Len(playlist) < playlist_size
    /\ AllSelectedEmpty

\* the rotation order the interleaving is to follow, and the place of a
\* category in it
RotationOrder == << "favorites", "hits", "discovery", "wildcard" >>
PlaceOf(c) == CHOOSE i \in 1 .. Len(RotationOrder) : RotationOrder[i] = c
\* the category `d` places after place `p` in cyclic order (d = 4: itself)
PlacesAfter(p, d) == RotationOrder[((p - 1 + d) % Len(RotationOrder)) + 1]
NonEmpty(c) == selected[c] # << >>
LastCat == emitted[Len(emitted)].cat

\* C26: every emission follows the cyclic order favorites, hits, discovery,
\* wildcard: the first track comes from the first category in that order with
\* a non-empty truncated list, each later track from the nearest category
\* after the previous emission's category, in cyclic order, with a non-empty
\* list; the track taken is the head of that category's list, which then
\* loses it.
C26_FixedRotationOrder ==
    [][ playlist' # playlist =>
          LET cat == emitted'[Len(emitted')].cat
          IN /\ IF emitted = << >>
                THEN /\ NonEmpty(cat)
                     /\ \A i \in 1 .. (PlaceOf(cat) - 1) : ~ NonEmpty(RotationOrder[i])
                ELSE \E d \in 1 .. Len(RotationOrder) :
                         /\ cat = PlacesAfter(PlaceOf(LastCat), d)
                         /\ NonEmpty(cat)
                         /\ \A e \in 1 .. (d - 1) :
                                ~ NonEmpty(PlacesAfter(PlaceOf(LastCat), e))
             /\ playlist' = Append(playlist, Head(selected[cat]))
             /\ selected' = [selected EXCEPT ![cat] = Tail(@)] ]_vars

\* the second track was emitted from a category that is not the successor of
\* the first track's category: an exhausted category was passed over
C26_Witness ==
    /\ Len(emitted) >= 2
    /\ emitted[2].cat # PlacesAfter(PlaceOf(emitted[1].cat), 1)

(***************************************************************************)
(* Further properties of collect_tracks.                                   *)
(***************************************************************************)
\* C24 as stated: each pool that collect_tracks returns for build_playlist
\* holds no track id twice, also when one track is among the top songs of
\* more than one artist.
C24_PoolsHoldNoIdTwice ==
    \A c \in CollectCategories :
        \A i, j \in 1 .. Len(tracks_by_category[c]) :
            tracks_by_category[c][i].id = tracks_by_category[c][j].id => i = j

(***************************************************************************)
(* Further properties of create_or_update_playlist.                        *)
(***************************************************************************)
\* the filter loop looked at the id and kept it
PassedDeduplication(id) ==
    \E j \in 1 .. Len(new_track_ids) : new_track_ids[j] = id

\* C27 as stated, on the step that publishes: every track id sent to the
\* music service has passed through the deduplication loop of the call.
C27_PublishedPassedDeduplication ==
    \A i \in 1 .. Len(sent) : PassedDeduplication(sent[i])

\* key of the track at place i of the managed playlist
ManagedKey(i) ==
    playlist_key(managed[1][i].attributes[1].artist_name,
                 managed[1][i].attributes[1].name)

\* C29 as stated, for the first cycle: a managed playlist made by a call that
\* found none holds no two tracks with the same (lower-cased artist,
\* normalized name) key.
C29_NoDuplicateKeysInPlaylist ==
    (playlist_before = None /\ managed # None) =>
        \A i, j \in 1 .. Len(managed[1]) :
            (/\ managed[1][i].attributes # None
             /\ managed[1][j].attributes # None
             /\ ManagedKey(i) = ManagedKey(j)) => i = j

\* what refresh_playlist writes after create_or_update_playlist(playlist_track_ids)
\* returned: upsert_playlist_state(track_count=len(playlist_track_ids)) and
\* log_sync(status="success", tracks_added=len(playlist_track_ids))
track_count == Len(track_ids)
tracks_added == Len(track_ids)

\* C30 as stated: when the publishing call of a cycle has returned, the
\* tracks-added count for the run log and the track_count for the playlist
\* state equal the number of track ids sent to the music service in it.
C30_CountsEqualIdsSent ==
    pb_pc = "returned" =>
        /\ tracks_added = Len(sent)
        /\ track_count = Len(sent)

(***************************************************************************)
(* Tables tracks and preferences under Repository.upsert_track and         *)
(* Repository.upsert_preference, called one after the other.  A row of     *)
(* preferences is its track_id and the columns upsert_preference keeps.    *)
(* No operation deletes a row of either table.                             *)
(***************************************************************************)
\* apple_music_id values passed to upsert_track
AppleIds == { CatalogId(n) : n \in 1 .. MaxTrackRows }

\* select(PreferenceRecord).where(PreferenceRecord.track_id == track_id)
preferences_of(rows, track_id) ==
    { i \in 1 .. Len(rows) : rows[i].track_id = track_id }

\* the arguments of an upsert_preference call
TableUpsertArgs ==
    [play_count : { None, Some(MaxPlays) },
     weight : { None, Some(Frac(5, 1)) }]

TablesInit ==
    /\ TablesAtRest
    /\ BuildAtRest
    /\ LearnAtRest
    /\ CollectAtRest
    /\ PublishAtRest
    /\ RefreshAtRest
    /\ ArtistAtRest
    /\ UpsertAtRest

\* upsert_track(apple_music_id=...): a stored row keeps its primary key, a new
\* row takes the next one
TablesUpsertTrack(apple_music_id) ==
    /\ table_calls < MaxTableCalls
    /\ table_calls' = table_calls + 1
    /\ track_rows' =
           IF \E i \in 1 .. Len(track_rows) : track_rows[i] = apple_music_id
           THEN track_rows
           ELSE Append(track_rows, apple_music_id)
    /\ UNCHANGED preference_rows
    /\ UNCHANGED nonTables

\* upsert_preference(track_id=..., play_count=..., weight=...): the row found
\* by track_id is updated, or a row with that track_id is added; tracks is
\* not consulted, and SQLite runs with foreign-key enforcement off
TablesUpsertPreference(track_id, args) ==
    /\ table_calls < MaxTableCalls
    /\ table_calls' = table_calls + 1
    /\ LET found == preferences_of(preference_rows, track_id)
       IN CASE found = {} ->
                 preference_rows' = Append(preference_rows,
                     [track_id |-> track_id,
                      columns |-> upsert_preference(None, args.play_count, None,
                                      args.weight, None, table_calls + 1)[1]])
            [] Cardinality(found) = 1 ->
                 LET i == CHOOSE i \in found : TRUE
                 IN preference_rows' = [preference_rows EXCEPT ![i].columns =
                        upsert_preference(Some(@), args.play_count, None,
                            args.weight, None, table_calls + 1)[1]]
            [] OTHER -> UNCHANGED preference_rows
    /\ UNCHANGED track_rows
    /\ UNCHANGED nonTables

TablesNext ==
    \/ \E apple_music_id \in AppleIds : TablesUpsertTrack(apple_music_id)
    \/ \E track_id \in 1 .. MaxTrackRows, args \in TableUpsertArgs :
           TablesUpsertPreference(track_id, args)

TablesSpec == TablesInit /\ [][TablesNext]_vars

\* C23 as stated: after any sequence of repository operations every
\* Preference record references a Track record that exists, and no Track is
\* referenced by more than one Preference record.
C23_PreferenceReferencesOneTrack ==
    /\ \A i \in 1 .. Len(preference_rows) :
           preference_rows[i].track_id \in 1 .. Len(track_rows)
    /\ \A i, j \in 1 .. Len(preference_rows) :
           preference_rows[i].track_id = preference_rows[j].track_id => i = j

(***************************************************************************)
(* Further properties of update_preferences.                               *)
(***************************************************************************)
\* a step taken inside update_preferences
CycleStep == lp_pc # "idle" \/ lp_pc' # "idle"

\* the step creates and deletes no Preference of track k and changes none of
\* its columns other than weight
FrameKept(k) ==
    /\ prefs[k] = None <=> prefs'[k] = None
    /\ prefs[k] # None =>
           /\ prefs'[k][1].play_count = prefs[k][1].play_count
           /\ prefs'[k][1].play_count_previous = prefs[k][1].play_count_previous
           /\ prefs'[k][1].playlist_position = prefs[k][1].playlist_position
           /\ prefs'[k][1].added_to_playlist_at = prefs[k][1].added_to_playlist_at
           /\ prefs'[k][1].last_played_at = prefs[k][1].last_played_at

\* C28: every step of update_preferences keeps the frame of every Preference,
\* and a Preference whose frame is kept by a step, whatever the step, and
\* that matched the negative-signal or the decay query before it matches the
\* same query after it.
C28_OnlyWeightsChange ==
    [][ /\ CycleStep => \A k \in PrefTracks : FrameKept(k)
        /\ \A k \in PrefTracks :
               FrameKept(k) =>
                   /\ k \in get_unplayed_hot_zone_tracks(prefs, now) =>
                          k \in get_unplayed_hot_zone_tracks(prefs', now')
                   /\ k \in get_decaying_tracks(prefs, now) =>
                          k \in get_decaying_tracks(prefs', now') ]_vars

\* update_preferences returned having changed the weight of a track that
\* still matches the negative-signal query
C28_Witness ==
    /\ lp_pc = "decay"
    /\ decaying = << >>
    /\ \E k \in PrefTracks :
          /\ cycle_start[k] # None
          /\ prefs[k][1].weight # cycle_start[k][1].weight
          /\ k \in get_unplayed_hot_zone_tracks(cycle_start, now)
          /\ k \in get_unplayed_hot_zone_tracks(prefs, now)

\* C22 as stated: learning is best-effort per track: a failing update of one
\* track is skipped and does not end update_preferences, so the call is never
\* left by an exception with rows of its passes still unprocessed.
C22_LearningBestEffortPerTrack == lp_pc # "raised"

====
